---- MODULE Spec2Model ----
(***************************************************************************)
(* Model of the FinanceSheet component (app/components/FinanceSheet.tsx):  *)
(* the sheet's state (rows, currency), the persisted copy under            *)
(* STORAGE_KEY, the two effects (load on mount, save on every change of    *)
(* rows or currency), the event handlers and the derived aggregates.       *)
(*                                                                         *)
(* Numbers.  A JavaScript number is an IEEE-754 double.  The model keeps   *)
(* the integers  hi * 2^53 + lo  (lo small) as records [hi, lo]; sums and  *)
(* differences are rounded to the nearest double, ties to even, exactly as *)
(* the hardware does for these values.  With hi = 0 everything is exact.   *)
(*                                                                         *)
(* Text.  A string is a sequence of tokens; the token " " is a white-space *)
(* character, every other token a run of non-white-space characters.       *)
(***************************************************************************)
EXTENDS Integers, Sequences, FiniteSets, TLC

VARIABLES rows, currency, store, mounted, ops, last

vars == <<rows, currency, store, mounted, ops, last>>

\* Number of user operations (after the first mount) a run performs.
MaxOps == 2

-----------------------------------------------------------------------------
(* Doubles *)

N(k) == [hi |-> 0, lo |-> k]

Zero == N(0)

\* 9007199254740992 = 2^53
TwoTo53 == [hi |-> 1, lo |-> 0]

RECURSIVE Log2(_)
Log2(h) == IF h <= 1 THEN 0 ELSE 1 + Log2(h \div 2)

RECURSIVE Pow2(_)
Pow2(k) == IF k <= 0 THEN 1 ELSE 2 * Pow2(k - 1)

IsPow2(h) == Pow2(Log2(h)) = h

\* Distance between neighbouring doubles around h * 2^53 + d, for h >= 1.
Ulp(h, d) ==
  IF d >= 0 \/ ~IsPow2(h) THEN Pow2(Log2(h) + 1) ELSE Pow2(Log2(h))

\* d rounded to the nearest multiple of s, a tie to the even multiple.
RoundNearestEven(d, s) ==
  LET q == d \div s
      r == d - q * s
  IN  IF 2 * r < s THEN q * s
      ELSE IF 2 * r > s THEN (q + 1) * s
      ELSE IF q % 2 = 0 THEN q * s ELSE (q + 1) * s

\* The double nearest to the exact integer h * 2^53 + d.
RoundDouble(h, d) ==
  IF h = 0 THEN [hi |-> 0, lo |-> d]
  ELSE IF h > 0 THEN [hi |-> h, lo |-> RoundNearestEven(d, Ulp(h, d))]
  ELSE [hi |-> h, lo |-> 0 - RoundNearestEven(0 - d, Ulp(0 - h, 0 - d))]

\* a + b and a - b on doubles.
Add(a, b) == RoundDouble(a.hi + b.hi, a.lo + b.lo)

Sub(a, b) == RoundDouble(a.hi - b.hi, a.lo - b.lo)

Sign(x) ==
  IF x.hi # 0 THEN (IF x.hi < 0 THEN -1 ELSE 1)
  ELSE IF x.lo < 0 THEN -1 ELSE IF x.lo > 0 THEN 1 ELSE 0

\* Math.max(x, 0)
MaxZero(x) == IF Sign(x) < 0 THEN Zero ELSE x

-----------------------------------------------------------------------------
(* Constants of the component *)

MONTHS ==
  <<"Jan", "Feb", "Mar", "Apr", "May", "Jun",
    "Jul", "Aug", "Sep", "Oct", "Nov", "Dec">>

MonthSet == {MONTHS[i] : i \in DOMAIN MONTHS}

CategoryType == {"income", "expense", "savings"}

currencyOptions == {"USD", "EUR", "GBP", "CAD"}

\* createBlankValues(base, variation): month index i (0-based) gets
\* max(0, Math.round(base + drift)), drift = -variation/2 for even i and
\* +variation/2 for odd i; Math.round rounds a half up, floor(x + 1/2).
createBlankValues(base, variation) ==
  [m \in MonthSet |->
     LET index  == (CHOOSE i \in DOMAIN MONTHS : MONTHS[i] = m) - 1
         twice  == 2 * base + (IF index % 2 = 0 THEN -1 ELSE 1) * variation
         rounded == (twice + 1) \div 2
     IN  N(IF rounded < 0 THEN 0 ELSE rounded)]

createZeroValues == [m \in MonthSet |-> Zero]

SheetRow(id, label, type, values) ==
  [id |-> id, label |-> label, type |-> type, values |-> values]

defaultRows ==
  << SheetRow("salary", <<"Primary", " ", "Income">>, "income",
              createBlankValues(5500, 0)),
     SheetRow("side-income", <<"Side", " ", "Income">>, "income",
              createBlankValues(650, 0)),
     SheetRow("rent", <<"Housing", " ", "&", " ", "Rent">>, "expense",
              createBlankValues(1850, 20)),
     SheetRow("groceries", <<"Groceries">>, "expense",
              createBlankValues(580, 60)),
     SheetRow("transport", <<"Transportation">>, "expense",
              createBlankValues(220, 30)),
     SheetRow("subscriptions", <<"Subscriptions">>, "expense",
              createBlankValues(95, 5)),
     SheetRow("emergency-fund", <<"Emergency", " ", "Fund">>, "savings",
              createBlankValues(400, 50)),
     SheetRow("retirement", <<"Retirement">>, "savings",
              createBlankValues(650, 20)) >>

\* cloneRows: a fresh row per row with a fresh copy of its values.
cloneRows(rs) ==
  [i \in DOMAIN rs |->
     [rs[i] EXCEPT !.values = [m \in DOMAIN rs[i].values |-> rs[i].values[m]]]]

-----------------------------------------------------------------------------
(* Persistence: JSON.stringify, JSON.parse, the load and the save effect *)

\* What localStorage holds under STORAGE_KEY: nothing ("absent"), a text
\* JSON.parse rejects ("garbage"), or the text of a JSON object ("json"),
\* given by its members.  An object's members are written as a sequence of
\* <<key, value>> pairs.  rowsIsArray = FALSE stands for a "rows" member that
\* is truthy but no array (a number, say).
StoredText(kind, hasRows, rowsIsArray, rowTexts, hasCurrency, cur) ==
  [kind |-> kind, hasRows |-> hasRows, rowsIsArray |-> rowsIsArray,
   rows |-> rowTexts, hasCurrency |-> hasCurrency, currency |-> cur]

Absent == StoredText("absent", FALSE, FALSE, <<>>, FALSE, "")

Garbage == StoredText("garbage", FALSE, FALSE, <<>>, FALSE, "")

\* The members of a values object, in the order of its keys.
StringifyValues(values) ==
  LET keys == SelectSeq(MONTHS, LAMBDA m : m \in DOMAIN values)
  IN  [i \in DOMAIN keys |-> <<keys[i], values[keys[i]]>>]

StringifyRow(row) ==
  [id |-> row.id, label |-> row.label, type |-> row.type,
   values |-> StringifyValues(row.values)]

\* JSON.stringify({ rows, currency })
JsonStringify(payload) ==
  StoredText("json", TRUE, TRUE,
             [i \in DOMAIN payload.rows |-> StringifyRow(payload.rows[i])],
             TRUE, payload.currency)

RECURSIVE ParseMembers(_, _)
\* The members read from left to right into obj: a repeated key keeps its
\* last value.
ParseMembers(members, obj) ==
  IF members = <<>> THEN obj
  ELSE ParseMembers(Tail(members),
                    (Head(members)[1] :> Head(members)[2]) @@ obj)

\* The object a members list denotes.
ParseValues(members) == ParseMembers(members, <<>>)

ParseRow(rowText) ==
  [id |-> rowText.id, label |-> rowText.label, type |-> rowText.type,
   values |-> ParseValues(rowText.values)]

\* JSON.parse(raw): threw = TRUE when it throws a SyntaxError.
JsonParse(raw) ==
  [threw |-> raw.kind # "json",
   hasRows |-> raw.hasRows, rowsIsArray |-> raw.rowsIsArray,
   rows |-> [i \in DOMAIN raw.rows |-> ParseRow(raw.rows[i])],
   hasCurrency |-> raw.hasCurrency, currency |-> raw.currency]

\* A check that also wants a row: parsed.rows.length && parsed.currency
LoadAcceptsNonEmpty(parsed) ==
  /\ parsed.hasRows /\ parsed.rows # <<>>
  /\ parsed.hasCurrency /\ parsed.currency # ""

\* A check that forgets the currency: parsed.rows alone
LoadAcceptsRowsOnly(parsed) == parsed.hasRows

\* parsed.rows && parsed.currency (an array is truthy, "" is not)
LoadAccepts(parsed) ==
  /\ parsed.hasRows
  /\ parsed.hasCurrency /\ parsed.currency # ""

\* The load effect on state st = [rows, currency], raw the stored item:
\* the state it leaves, and whether it called the setters.  Nothing is set
\* when the item is absent, when JSON.parse throws, when the check fails, or
\* when cloneRows throws on rows that are no array (all inside the try,
\* before the first setter runs).
LoadEffect(raw, st) ==
  LET unchanged == [set |-> FALSE, rows |-> st.rows, currency |-> st.currency]
  IN  IF raw.kind = "absent" THEN unchanged
      ELSE LET parsed == JsonParse(raw)
           IN  IF parsed.threw THEN unchanged
               ELSE IF ~LoadAccepts(parsed) THEN unchanged
               ELSE IF ~parsed.rowsIsArray THEN unchanged
               ELSE [set |-> TRUE, rows |-> cloneRows(parsed.rows),
                     currency |-> parsed.currency]

\* The save effect: localStorage.setItem(STORAGE_KEY, JSON.stringify(payload)).
SaveEffect(st) == JsonStringify(st)

\* The store after a render: the save effect runs when rows or currency
\* changed (rows by reference: every setRows below passes a new array).
AfterRender(storeBefore, st, changed) ==
  IF changed THEN SaveEffect(st) ELSE storeBefore

\* A page load: state starts as the template; on mount the load effect and
\* then the save effect (of the template state) run; when the load effect set
\* the state the component renders again and the save effect runs again.
Startup(raw) ==
  LET initial   == [rows |-> cloneRows(defaultRows), currency |-> "USD"]
      loaded    == LoadEffect(raw, initial)
      firstSave == SaveEffect(initial)
      st        == [rows |-> loaded.rows, currency |-> loaded.currency]
  IN  [rows |-> st.rows, currency |-> st.currency,
       store |-> AfterRender(firstSave, st, loaded.set)]

-----------------------------------------------------------------------------
(* Derived aggregates *)

RECURSIVE ReduceAdd(_, _)
\* seq.reduce((acc, x) => acc + x, acc)
ReduceAdd(seq, acc) ==
  IF seq = <<>> THEN acc ELSE ReduceAdd(Tail(seq), Add(acc, Head(seq)))

\* Object.values(values), in key order
ObjectValues(values) ==
  LET keys == SelectSeq(MONTHS, LAMBDA m : m \in DOMAIN values)
  IN  [i \in DOMAIN keys |-> values[keys[i]]]

sumRecord(values) == ReduceAdd(ObjectValues(values), Zero)

totalFor(month, rs, type) ==
  LET filtered == SelectSeq(rs, LAMBDA row : row.type = type)
      amounts  == [i \in DOMAIN filtered |->
                     IF month \in DOMAIN filtered[i].values
                     THEN filtered[i].values[month] ELSE Zero]
  IN  ReduceAdd(amounts, Zero)

\* The totals with savings left out of the net.
monthlyTotalsNoSavings(rs) ==
  [income  |-> [m \in MonthSet |-> totalFor(m, rs, "income")],
   expense |-> [m \in MonthSet |-> totalFor(m, rs, "expense")],
   savings |-> [m \in MonthSet |-> totalFor(m, rs, "savings")],
   net     |-> [m \in MonthSet |->
                  Sub(totalFor(m, rs, "income"), totalFor(m, rs, "expense"))]]

monthlyTotals(rs) ==
  [income  |-> [m \in MonthSet |-> totalFor(m, rs, "income")],
   expense |-> [m \in MonthSet |-> totalFor(m, rs, "expense")],
   savings |-> [m \in MonthSet |-> totalFor(m, rs, "savings")],
   net     |-> [m \in MonthSet |->
                  Sub(Sub(totalFor(m, rs, "income"), totalFor(m, rs, "expense")),
                      totalFor(m, rs, "savings"))]]

annualTotals(mt) ==
  [income  |-> sumRecord(mt.income),
   expense |-> sumRecord(mt.expense),
   savings |-> sumRecord(mt.savings),
   net     |-> sumRecord(mt.net)]

\* The comparator with its operands swapped: (a, b) => a.total - b.total
CompareTotalsAscending(a, b) == Sign(Sub(a.total, b.total))

\* The comparator of the sort: (a, b) => b.total - a.total
CompareTotals(a, b) == Sign(Sub(b.total, a.total))

\* x inserted into a sorted sequence behind every element that does not
\* have to follow it: the sort is stable.
RECURSIVE InsertSorted(_, _)
InsertSorted(sorted, x) ==
  IF sorted = <<>> THEN <<x>>
  ELSE IF CompareTotals(Head(sorted), x) > 0 THEN <<x>> \o sorted
  ELSE <<Head(sorted)>> \o InsertSorted(Tail(sorted), x)

RECURSIVE SortTotals(_)
SortTotals(seq) ==
  IF seq = <<>> THEN <<>>
  ELSE InsertSorted(SortTotals(SubSeq(seq, 1, Len(seq) - 1)), seq[Len(seq)])

Undefined == [defined |-> FALSE, label |-> <<>>, total |-> Zero]

\* rows.filter(expense).map({label, total}).sort(...)[0]
highestExpense(rs) ==
  LET expenses == SelectSeq(rs, LAMBDA row : row.type = "expense")
      totals   == [i \in DOMAIN expenses |->
                     [label |-> expenses[i].label,
                      total |-> sumRecord(expenses[i].values)]]
      sorted   == SortTotals(totals)
  IN  IF sorted = <<>> THEN Undefined
      ELSE [defined |-> TRUE, label |-> sorted[1].label, total |-> sorted[1].total]

-----------------------------------------------------------------------------
(* Inputs *)

\* Number.parseFloat on the texts a cell is given here.
NaN == [kind |-> "nan", val |-> Zero]

Infinity == [kind |-> "inf", val |-> Zero]

Finite(x) == [kind |-> "num", val |-> x]

RawInputs == {"abc", "-5", "12abc", "40", "9007199254740992", "Infinity"}

parseFloat(value) ==
  CASE value = "abc" -> NaN
    [] value = "-5" -> Finite(N(-5))
    [] value = "12abc" -> Finite(N(12))
    [] value = "40" -> Finite(N(40))
    [] value = "9007199254740992" -> Finite(TwoTo53)
    [] value = "Infinity" -> Infinity

\* Number.isFinite
isFinite(parsed) == parsed.kind = "num"

\* Months whose cells are edited.
EditMonths == {"Jan", "Feb"}

\* What window.prompt returns: null on cancel, else the text typed.
PromptNull == [null |-> TRUE, text |-> <<>>]

PromptText(t) == [null |-> FALSE, text |-> t]

PromptResults ==
  {PromptNull, PromptText(<<>>), PromptText(<<" ">>),
   PromptText(<<" ", "Gym", " ">>)}

\* !label
Falsy(label) == label.null \/ label.text = <<>>

RECURSIVE TrimStart(_)
TrimStart(t) ==
  IF t # <<>> /\ Head(t) = " " THEN TrimStart(Tail(t)) ELSE t

RECURSIVE TrimEnd(_)
TrimEnd(t) ==
  IF t # <<>> /\ t[Len(t)] = " " THEN TrimEnd(SubSeq(t, 1, Len(t) - 1)) ELSE t

\* String.prototype.trim
Trim(t) == TrimEnd(TrimStart(t))

\* nanoid(8) returns a random 8-character id; nothing relates it to the ids
\* in use.
NanoIds == {"V1StGXR8", "Uakgb_J5"}

GhostId == "no-such-row"

\* Row ids the handlers are called with: the ids of the first two rows
\* shown, and an id no row has.
TargetIds(rs) == {rs[i].id : i \in DOMAIN rs \cap {1, 2}} \cup {GhostId}

\* Rows a browser may hold from an earlier session.
Amounts(jan, feb) ==
  [m \in MonthSet |-> IF m = "Jan" THEN jan ELSE IF m = "Feb" THEN feb ELSE Zero]

SavedTie ==
  JsonStringify(
    [rows |-> << SheetRow("Uakgb_J5", <<"Gym">>, "expense", Amounts(N(40), N(12))),
                 SheetRow("rent", <<"Rent">>, "expense", Amounts(N(12), N(40))),
                 SheetRow("salary", <<"Pay">>, "income", Amounts(N(40), N(40))) >>,
     currency |-> "EUR"])

SavedEmpty == JsonStringify([rows |-> <<>>, currency |-> "GBP"])

\* Texts that are valid JSON but not what the save effect writes.
NoRows == StoredText("json", FALSE, FALSE, <<>>, TRUE, "EUR")

NoCurrency == [SavedTie EXCEPT !.hasCurrency = FALSE, !.currency = ""]

EmptyCurrency == [SavedTie EXCEPT !.currency = ""]

RowsNotArray == StoredText("json", TRUE, FALSE, <<>>, TRUE, "CAD")

\* { rows: [{ id, label, type, values: { Jan: -5 } }], currency: "USD" }
ShortRow ==
  StoredText("json", TRUE, TRUE,
             << [id |-> "rent", label |-> <<"Rent">>, type |-> "expense",
                 values |-> << <<"Jan", N(-5)>> >>] >>,
             TRUE, "USD")

\* Two rows under one id.
TwinRows ==
  JsonStringify(
    [rows |-> << SheetRow("rent", <<"Rent">>, "expense", Amounts(N(12), Zero)),
                 SheetRow("rent", <<"Car">>, "expense", Amounts(N(40), Zero)) >>,
     currency |-> "USD"])

InitialStores ==
  {Absent, Garbage, NoRows, NoCurrency, EmptyCurrency, RowsNotArray,
   SavedTie, SavedEmpty, ShortRow, TwinRows}

-----------------------------------------------------------------------------
(* State and operations *)

\* The operation performed last, with its inputs; text is the item the
\* load effect read.
Op(op, rowId, month, value, type, label, id, code, confirmed, text) ==
  [op |-> op, rowId |-> rowId, month |-> month, value |-> value,
   type |-> type, label |-> label, id |-> id, code |-> code,
   confirmed |-> confirmed, text |-> text]

NoOp == Op("none", "", "", "", "", PromptNull, "", "", FALSE, Absent)

State == [rows |-> rows, currency |-> currency]

Init ==
  /\ rows = cloneRows(defaultRows)
  /\ currency = "USD"
  /\ store \in InitialStores
  /\ mounted = FALSE
  /\ ops = 0
  /\ last = NoOp

\* The component mounts: first page load.
Mount ==
  /\ ~mounted
  /\ LET s == Startup(store)
     IN  /\ rows' = s.rows
         /\ currency' = s.currency
         /\ store' = s.store
  /\ mounted' = TRUE
  /\ last' = [NoOp EXCEPT !.op = "startup", !.text = store]
  /\ UNCHANGED ops

\* The page is loaded again: the state is rebuilt from the template and
\* the stored item.
Reload ==
  /\ mounted /\ ops < MaxOps
  /\ LET s == Startup(store)
     IN  /\ rows' = s.rows
         /\ currency' = s.currency
         /\ store' = s.store
  /\ last' = [NoOp EXCEPT !.op = "reload", !.text = store]
  /\ ops' = ops + 1
  /\ UNCHANGED mounted

\* The amount without the clamp at 0.
CellValueUnclamped(value) ==
  LET parsed == parseFloat(value)
  IN  IF isFinite(parsed) THEN parsed.val ELSE Zero

\* The amount a cell gets for the text typed.
CellValue(value) ==
  LET parsed == parseFloat(value)
  IN  IF isFinite(parsed) THEN MaxZero(parsed.val) ELSE Zero

\* prev.map(row => row.id === rowId ? {...row, values: {...row.values, [month]: v}} : row)
ChangedRows(prev, rowId, month, value) ==
  [i \in DOMAIN prev |->
     IF prev[i].id = rowId
     THEN [prev[i] EXCEPT !.values =
             [m \in DOMAIN prev[i].values \cup {month} |->
                IF m = month THEN CellValue(value) ELSE prev[i].values[m]]]
     ELSE prev[i]]

handleChange(rowId, month, value) ==
  /\ mounted /\ ops < MaxOps
  /\ rows' = ChangedRows(rows, rowId, month, value)
  /\ store' = AfterRender(store, [rows |-> rows', currency |-> currency], TRUE)
  /\ last' = [NoOp EXCEPT !.op = "handleChange", !.rowId = rowId,
                          !.month = month, !.value = value]
  /\ ops' = ops + 1
  /\ UNCHANGED <<currency, mounted>>

\* The row addRow appends.
NewRow(id, label, type) == SheetRow(id, Trim(label.text), type, createZeroValues)

AddedRows(prev, type, label, id) ==
  IF Falsy(label) THEN prev ELSE Append(prev, NewRow(id, label, type))

addRow(type, label, id) ==
  /\ mounted /\ ops < MaxOps
  /\ rows' = AddedRows(rows, type, label, id)
  /\ store' = AfterRender(store, [rows |-> rows', currency |-> currency],
                          ~Falsy(label))
  /\ last' = [NoOp EXCEPT !.op = "addRow", !.type = type, !.label = label,
                          !.id = IF Falsy(label) THEN "" ELSE id]
  /\ ops' = ops + 1
  /\ UNCHANGED <<currency, mounted>>

removeRow(rowId) ==
  /\ mounted /\ ops < MaxOps
  /\ rows' = SelectSeq(rows, LAMBDA row : row.id # rowId)
  /\ store' = AfterRender(store, [rows |-> rows', currency |-> currency], TRUE)
  /\ last' = [NoOp EXCEPT !.op = "removeRow", !.rowId = rowId]
  /\ ops' = ops + 1
  /\ UNCHANGED <<currency, mounted>>

\* The state and the store reset leaves: the setters, removeItem, and then
\* the render the setters cause, whose save effect writes the new state.
ResetResult(storeBefore) ==
  LET st      == [rows |-> cloneRows(defaultRows), currency |-> "USD"]
      removed == Absent
  IN  [rows |-> st.rows, currency |-> st.currency,
       store |-> AfterRender(removed, st, TRUE)]

reset(confirmed) ==
  /\ mounted /\ ops < MaxOps
  /\ IF confirmed
     THEN LET r == ResetResult(store)
          IN  /\ rows' = r.rows
              /\ currency' = r.currency
              /\ store' = r.store
     ELSE UNCHANGED <<rows, currency, store>>
  /\ last' = [NoOp EXCEPT !.op = "reset", !.confirmed = confirmed]
  /\ ops' = ops + 1
  /\ UNCHANGED mounted

\* The currency select: setCurrency(event.target.value)
setCurrency(code) ==
  /\ mounted /\ ops < MaxOps
  /\ currency' = code
  /\ store' = AfterRender(store, [rows |-> rows, currency |-> code],
                          code # currency)
  /\ last' = [NoOp EXCEPT !.op = "setCurrency", !.code = code]
  /\ ops' = ops + 1
  /\ UNCHANGED <<rows, mounted>>

Next ==
  \/ Mount
  \/ Reload
  \/ \E rowId \in TargetIds(rows), month \in EditMonths, value \in RawInputs :
       handleChange(rowId, month, value)
  \/ \E type \in CategoryType, label \in PromptResults, id \in NanoIds :
       addRow(type, label, id)
  \/ \E rowId \in TargetIds(rows) : removeRow(rowId)
  \/ \E confirmed \in BOOLEAN : reset(confirmed)
  \/ \E code \in currencyOptions : setCurrency(code)

Spec == Init /\ [][Next]_vars

-----------------------------------------------------------------------------
(* Properties *)

Template == cloneRows(defaultRows)

\* C1: once a confirmed reset has completed, the sheet holds exactly the 8
\* template rows and currency "USD", and nothing is stored under the
\* storage key.
C1_ResetClearsStorage ==
  (last.op = "reset" /\ last.confirmed) =>
    /\ Len(rows) = 8
    /\ rows = Template
    /\ currency = "USD"
    /\ store = Absent

\* The stored item decodes to exactly these rows and this currency.
StoreHolds(item, rs, cur) ==
  /\ item.kind = "json"
  /\ item.hasRows /\ item.rowsIsArray /\ item.hasCurrency
  /\ LET parsed == JsonParse(item)
     IN  parsed.rows = rs /\ parsed.currency = cur

\* C2: after every operation the store holds the current rows and currency,
\* and loading the page again ends with the same rows, the same currency
\* and the same stored item: load(save(state)) = state.
C2_PersistenceRoundTrip ==
  [][ /\ mounted' => StoreHolds(store', rows', currency')
      /\ last'.op = "reload" =>
           (rows' = rows /\ currency' = currency /\ store' = store) ]_vars

\* A page reload after an edit of a restored sheet, the edit still there.
C2_Witness ==
  /\ last.op = "reload"
  /\ currency = "EUR"
  /\ rows # Template /\ rows # <<>>
  /\ rows[1].values["Jan"] = TwoTo53

\* C3: in every state every row has exactly the 12 month keys and no
\* negative amount.
C3_RowsWellFormed ==
  \A i \in DOMAIN rows :
    /\ DOMAIN rows[i].values = MonthSet
    /\ \A m \in DOMAIN rows[i].values : Sign(rows[i].values[m]) >= 0

\* C4: the ids of the rows are pairwise distinct.
C4_IdsDistinct ==
  \A i, j \in DOMAIN rows : i # j => rows[i].id # rows[j].id

\* The stored item is absent, is no JSON, or lacks rows or currency.
BadItem(item) ==
  \/ item.kind = "absent"
  \/ item.kind = "garbage"
  \/ ~item.hasRows
  \/ ~item.hasCurrency

\* C5: a page load that reads an absent item, a text that is no JSON, or an
\* object without rows or without currency leaves the 8 template rows and
\* currency "USD": nothing of the item is applied.
C5_LoadToleratesBadData ==
  (last.op \in {"startup", "reload"} /\ BadItem(last.text)) =>
    /\ Len(rows) = 8
    /\ rows = Template
    /\ currency = "USD"

\* A page load that read an object with rows but no currency.
C5_Witness ==
  /\ last.op = "startup"
  /\ last.text = NoCurrency
  /\ JsonParse(last.text).rows # Template
  /\ rows = Template /\ currency = "USD"

\* C6: a cell edit changes one value of one row: the row count, the order,
\* every id, label and type and the currency stay, at most one row differs
\* from before and it differs in the edited month only; with no row of
\* that id nothing changes.
C6_OnlyTargetCellChanges ==
  [][ last'.op = "handleChange" =>
        /\ Len(rows') = Len(rows)
        /\ currency' = currency
        /\ \A i \in DOMAIN rows :
             /\ rows'[i].id = rows[i].id
             /\ rows'[i].label = rows[i].label
             /\ rows'[i].type = rows[i].type
             /\ \A m \in DOMAIN rows[i].values :
                  m # last'.month => rows'[i].values[m] = rows[i].values[m]
        /\ Cardinality({i \in DOMAIN rows : rows'[i] # rows[i]}) <= 1
        /\ (\A i \in DOMAIN rows : rows[i].id # last'.rowId) => rows' = rows ]_vars

\* What the claim says a cell holds after the text value was typed.
ExpectedAmount(value) ==
  LET parsed == parseFloat(value)
  IN  IF parsed.kind # "num" THEN Zero
      ELSE IF Sign(parsed.val) < 0 THEN Zero
      ELSE parsed.val

\* C7: after a cell edit the edited cell holds 0 when the text is no finite
\* number or a negative one, and the parsed number otherwise.
C7_InvalidOrNegativeBecomesZero ==
  [][ last'.op = "handleChange" =>
        \A i \in DOMAIN rows :
          rows[i].id = last'.rowId =>
            /\ last'.month \in DOMAIN rows'[i].values
            /\ rows'[i].values[last'.month] = ExpectedAmount(last'.value) ]_vars

\* "-5" was typed into a cell that held another amount, and it holds 0.
C7_Witness ==
  /\ last.op = "handleChange"
  /\ last.value = "-5"
  /\ \E i \in DOMAIN rows :
       /\ rows[i].id = last.rowId
       /\ rows[i].values[last.month] = Zero
       /\ i \in DOMAIN Template /\ Template[i].id = rows[i].id
       /\ Template[i].values[last.month] # Zero

\* C8: addRow with no label or an empty one leaves the rows as they are;
\* with a non-empty label it appends one row of the given type, with a
\* non-empty label and 12 zero amounts, behind the unchanged rows.
C8_AddRowAppendsLabelledRow ==
  [][ last'.op = "addRow" =>
        IF last'.label.null \/ last'.label.text = <<>>
        THEN rows' = rows
        ELSE /\ Len(rows') = Len(rows) + 1
             /\ SubSeq(rows', 1, Len(rows)) = rows
             /\ rows'[Len(rows')].type = last'.type
             /\ rows'[Len(rows')].label # <<>>
             /\ DOMAIN rows'[Len(rows')].values = MonthSet
             /\ \A m \in MonthSet : rows'[Len(rows')].values[m] = Zero ]_vars

\* Row i is an expense row whose annual total no expense row exceeds and no
\* earlier expense row reaches.
IsLargestExpense(rs, i) ==
  /\ rs[i].type = "expense"
  /\ \A j \in DOMAIN rs :
       rs[j].type = "expense" =>
         /\ Sign(Sub(sumRecord(rs[j].values), sumRecord(rs[i].values))) <= 0
         /\ (j < i => sumRecord(rs[j].values) # sumRecord(rs[i].values))

\* C9: the largest expense is undefined without an expense row, and else
\* the label and annual total of the first expense row with the maximum
\* annual total.
C9_LargestExpense ==
  LET result == highestExpense(rows)
  IN  IF \A i \in DOMAIN rows : rows[i].type # "expense"
      THEN ~result.defined
      ELSE /\ result.defined
           /\ \E i \in DOMAIN rows :
                /\ IsLargestExpense(rows, i)
                /\ result.label = rows[i].label
                /\ result.total = sumRecord(rows[i].values)

\* Two expense rows share the maximum and the first one is reported.
C9_Witness ==
  \E i, j \in DOMAIN rows :
    /\ i < j
    /\ IsLargestExpense(rows, i)
    /\ rows[j].type = "expense"
    /\ sumRecord(rows[j].values) = sumRecord(rows[i].values)
    /\ rows[j].label # rows[i].label
    /\ highestExpense(rows).label = rows[i].label

MonthlyIdentity(mt) ==
  \A m \in MonthSet :
    mt.net[m] = Sub(Sub(mt.income[m], mt.expense[m]), mt.savings[m])

AnnualIdentity(at) ==
  at.net = Sub(Sub(at.income, at.expense), at.savings)

\* Every amount is an integer below 2^53 in magnitude (and so is every
\* total of them here): no sum is rounded.
ExactAmounts(rs) ==
  \A i \in DOMAIN rs : \A m \in DOMAIN rs[i].values : rs[i].values[m].hi = 0

\* C10 as claimed: in every state each monthly net is income - expense -
\* savings of that month, and the annual net, the sum of the 12 monthly
\* nets, is annual income - annual expense - annual savings.
C10_AggregateIdentity ==
  LET mt == monthlyTotals(rows)
      at == annualTotals(mt)
  IN  MonthlyIdentity(mt) /\ AnnualIdentity(at)

\* C10 as amended: the monthly identity holds in every state; the annual
\* identity holds when no sum is rounded.
C10_AggregateIdentityExact ==
  LET mt == monthlyTotals(rows)
      at == annualTotals(mt)
  IN  /\ MonthlyIdentity(mt)
      /\ ExactAmounts(rows) => AnnualIdentity(at)

\* An edited sheet with exact amounts, rows of all three types and a
\* non-zero annual net.
C10_Witness ==
  /\ last.op = "handleChange"
  /\ ExactAmounts(rows)
  /\ \E i \in DOMAIN rows : rows[i].id = last.rowId
  /\ \A t \in CategoryType : \E i \in DOMAIN rows : rows[i].type = t
  /\ annualTotals(monthlyTotals(rows)).savings # Zero
  /\ annualTotals(monthlyTotals(rows)).net # Zero

====
